---- MODULE Spec2Model ----
(***************************************************************************)
(* Model of backend/scripts/update-schema-tenantid.py.                     *)
(*                                                                         *)
(* The script reads schema.prisma into `content`, and for every name in    *)
(* models_to_update applies two regular-expression substitutions           *)
(* (replace_model, add_index), then writes `content` back and prints one   *)
(* line.                                                                   *)
(*                                                                         *)
(* A schema document is a sequence of lines.  Every pattern of the script  *)
(* starts at the beginning of one of the lines used here and the two       *)
(* substring tests ('tenantId', '@@index([tenantId])') are decided line by *)
(* line, so a line is the unit of the model and the text of a line is kept *)
(* as a string.                                                            *)
(***************************************************************************)
EXTENDS Integers, Sequences, FiniteSets, TLC

VARIABLES
    file,      \* the schema file on disk (sequence of lines)
    content,   \* the in-memory text buffer `content`
    pc,        \* position of the script
    idx,       \* index into models_to_update of the loop at line 18
    printed,   \* the success line has been printed by the current run
    orig,      \* the file before the first run (history)
    outputs,   \* the documents written by the completed runs (history)
    runs       \* number of the current run

vars == <<file, content, pc, idx, printed, orig, outputs, runs>>

----------------------------------------------------------------------------
(* Bounds of the model *)

MaxLines == 3      \* body lines of a document, all blocks together
MaxRuns == 2       \* how often the script is run on the same file

----------------------------------------------------------------------------
(* The configuration of the script *)

models_to_update ==
    << "Invoice", "Deal", "Task", "PipelineStage",
       "WhatsAppConversation", "WhatsAppMessage", "CalendarEvent", "EmailLog",
       "AutomationRule", "Document", "SalesForecast", "VectorDataUpload",
       "RevenueGoal", "AIConversation", "AIMessage", "Campaign",
       "CampaignRecipient", "CampaignLog", "Form", "FormSubmission",
       "LandingPage" >>

Targets == {models_to_update[i] : i \in 1..Len(models_to_update)}

\* '\n  // Multi-tenant relationship\n  tenantId        String\n\n', inserted
\* at the start of a line: an empty line, the comment, the field, an empty line
tenant_field ==
    << "", "  // Multi-tenant relationship", "  tenantId        String", "" >>

\* '  @@index([tenantId])\n'
tenant_index == << "  @@index([tenantId])" >>

----------------------------------------------------------------------------
(* The lines of a schema document *)

Header(model) == "model " \o model \o " {"
Closing == "}"
UserRelation == "  // User relation"
IndexLine == "  @@index([userId])"
TenantIndexLine == "  @@index([tenantId])"
UniqueLine == "  @@unique([number])"
TenantFieldLine == "  tenantId        String"
TenantComment == "  // tenantId is added by the migration"

\* the lines a block body is drawn from
BodyLines ==
    { UserRelation, IndexLine, TenantIndexLine, UniqueLine,
      TenantFieldLine, TenantComment }

\* 'tenantId' in <line>
HasTenantId(line) ==
    line \in {TenantFieldLine, TenantIndexLine, TenantComment}

\* '@@index([tenantId])' in <line>
HasTenantIndex(line) == line = TenantIndexLine

\* the regular expression '  @@' matches at the start of the line
MatchesAtAt(line) == line \in {IndexLine, TenantIndexLine, UniqueLine}

\* the regular expression '  @@index\([^\)]+\)\n' matches the line
MatchesIndex(line) == line \in {IndexLine, TenantIndexLine}

----------------------------------------------------------------------------
(* Searching *)

Min(S) == CHOOSE x \in S : \A y \in S : x <= y

\* first position >= pos of the text 'model <model> {', 0 when there is none
FindHeader(doc, pos, model) ==
    LET header == Header(model)
        S == {i \in pos..Len(doc) : doc[i] = header}
    IN  IF S = {} THEN 0 ELSE Min(S)

\* first position > h of '  // User relation' (the non-greedy .*? of group 1)
FindMarker(doc, h) ==
    LET S == {i \in (h+1)..Len(doc) : doc[i] = UserRelation}
    IN  IF S = {} THEN 0 ELSE Min(S)

\* first position > m of '  @@' (the non-greedy .*? of group 2)
FindAtAt(doc, m) ==
    LET S == {i \in (m+1)..Len(doc) : MatchesAtAt(doc[i])}
    IN  IF S = {} THEN 0 ELSE Min(S)

\* first position > h of an index line directly followed by the line '}'
FindLastIndex(doc, h) ==
    LET S == {i \in (h+1)..(Len(doc)-1) :
                 MatchesIndex(doc[i]) /\ doc[i+1] = Closing}
    IN  IF S = {} THEN 0 ELSE Min(S)

----------------------------------------------------------------------------
(* The two substitutions *)

\* replace_model without its test for 'tenantId': it always inserts
replace_model_unchecked(doc, h, m, a) ==
    SubSeq(doc, h, m-1) \o tenant_field \o SubSeq(doc, m, a)

\* replace_model that looks for a tenantId field declaration, not for the
\* substring 'tenantId'
replace_model_declared_only(doc, h, m, a) ==
    IF \E i \in h..(a-1) : doc[i] = TenantFieldLine
    THEN SubSeq(doc, h, a)
    ELSE SubSeq(doc, h, m-1) \o tenant_field \o SubSeq(doc, m, a)

\* replace_model on the match that starts at line h, has its marker at line
\* m and ends with the '  @@' of line a.  The result replaces lines h..a.
replace_model(doc, h, m, a) ==
    IF \E i \in h..(a-1) : HasTenantId(doc[i])
    THEN SubSeq(doc, h, a)
    ELSE SubSeq(doc, h, m-1) \o tenant_field \o SubSeq(doc, m, a)

\* add_index without its test for '@@index([tenantId])': it always inserts
add_index_unchecked(doc, h, e) ==
    SubSeq(doc, h, e) \o tenant_index \o SubSeq(doc, e+1, e+1)

\* add_index that puts the tenant index before the last index line
add_index_before_last(doc, h, e) ==
    IF \E i \in h..e : HasTenantIndex(doc[i])
    THEN SubSeq(doc, h, e+1)
    ELSE SubSeq(doc, h, e-1) \o tenant_index \o SubSeq(doc, e, e+1)

\* add_index that returns the tenant index in place of the last index line
add_index_overwrite(doc, h, e) ==
    IF \E i \in h..e : HasTenantIndex(doc[i])
    THEN SubSeq(doc, h, e+1)
    ELSE SubSeq(doc, h, e-1) \o tenant_index \o SubSeq(doc, e+1, e+1)

\* add_index on the match that starts at line h and whose group 2 is line e
\* (line e+1 is the closing '}').  The result replaces lines h..e+1.
add_index(doc, h, e) ==
    IF \E i \in h..e : HasTenantIndex(doc[i])
    THEN SubSeq(doc, h, e+1)
    ELSE SubSeq(doc, h, e) \o tenant_index \o SubSeq(doc, e+1, e+1)

RECURSIVE FieldSub(_, _, _)
\* re.sub(model_pattern, replace_model, content, flags=re.DOTALL), from pos
FieldSub(doc, pos, model) ==
    LET h == FindHeader(doc, pos, model)
        m == IF h = 0 THEN 0 ELSE FindMarker(doc, h)
        a == IF m = 0 THEN 0 ELSE FindAtAt(doc, m)
    IN  IF a = 0
        THEN SubSeq(doc, pos, Len(doc))
        ELSE SubSeq(doc, pos, h-1) \o replace_model(doc, h, m, a)
                 \o FieldSub(doc, a+1, model)

RECURSIVE IndexSub(_, _, _)
\* re.sub(index_pattern, add_index, content, flags=re.DOTALL), from pos
IndexSub(doc, pos, model) ==
    LET h == FindHeader(doc, pos, model)
        e == IF h = 0 THEN 0 ELSE FindLastIndex(doc, h)
    IN  IF e = 0
        THEN SubSeq(doc, pos, Len(doc))
        ELSE SubSeq(doc, pos, h-1) \o add_index(doc, h, e)
                 \o IndexSub(doc, e+2, model)

RECURSIVE RunModels(_, _)
\* the loop `for model in models_to_update`, for a given sequence of names
\* (no pattern matches in an empty document)
RunModels(doc, order) ==
    IF doc = <<>> \/ order = <<>>
    THEN doc
    ELSE RunModels(IndexSub(FieldSub(doc, 1, Head(order)), 1, Head(order)),
                   Tail(order))

----------------------------------------------------------------------------
(* The documents the script is run on *)

Seqs(S, n) == UNION {[1..k -> S] : k \in 0..n}

Block(name, body) == <<Header(name)>> \o body \o <<Closing>>

\* model names of the documents: two targeted ones and one that is not
DocNames == {"Invoice", "Deal", "User"}

\* the names of a two-block document: two targeted blocks, or a targeted
\* block and one that is not, in either order
NamePairs ==
    { <<"Invoice", "Deal">>, <<"Deal", "Invoice">>,
      <<"Invoice", "User">>, <<"User", "Invoice">> }

OneBlockDocs ==
    {Block(n, b) : n \in {"Invoice", "User"}, b \in Seqs(BodyLines, MaxLines)}

TwoBlockDocs ==
    UNION { UNION { {Block(n1, b1) \o Block(n2, b2) :
                        b2 \in Seqs(BodyLines, MaxLines - Len(b1))}
                    : b1 \in Seqs(BodyLines, MaxLines) }
            : <<n1, n2>> \in NamePairs }

Docs == OneBlockDocs \cup TwoBlockDocs

----------------------------------------------------------------------------
(* The script *)

Init ==
    /\ file \in Docs
    /\ orig = file
    /\ content = <<>>
    /\ pc = "read"
    /\ idx = 1
    /\ printed = FALSE
    /\ outputs = <<>>
    /\ runs = 1

\* with open(schema_path, 'r') as f: content = f.read()
Read ==
    /\ pc = "read"
    /\ content' = file
    /\ idx' = 1
    /\ pc' = "field"
    /\ UNCHANGED <<file, printed, orig, outputs, runs>>

\* open() or read() raises: the script ends with a traceback
ReadFail ==
    /\ pc = "read"
    /\ pc' = "read_failed"
    /\ UNCHANGED <<file, content, idx, printed, orig, outputs, runs>>

\* content = re.sub(model_pattern, replace_model, content, flags=re.DOTALL)
FieldStep ==
    /\ pc = "field"
    /\ content' = FieldSub(content, 1, models_to_update[idx])
    /\ pc' = "index"
    /\ UNCHANGED <<file, idx, printed, orig, outputs, runs>>

\* the index step of a script that writes the file inside the loop
IndexStepWriteThrough ==
    /\ pc = "index"
    /\ content' = IndexSub(content, 1, models_to_update[idx])
    /\ file' = content'
    /\ idx' = idx + 1
    /\ pc' = IF idx = Len(models_to_update) THEN "write" ELSE "field"
    /\ UNCHANGED <<printed, orig, outputs, runs>>

\* content = re.sub(index_pattern, add_index, content, flags=re.DOTALL)
IndexStep ==
    /\ pc = "index"
    /\ content' = IndexSub(content, 1, models_to_update[idx])
    /\ idx' = idx + 1
    /\ pc' = IF idx = Len(models_to_update) THEN "write" ELSE "field"
    /\ UNCHANGED <<file, printed, orig, outputs, runs>>

\* with open(schema_path, 'w') as f: f.write(content)
Write ==
    /\ pc = "write"
    /\ file' = content
    /\ outputs' = Append(outputs, content)
    /\ pc' = "print"
    /\ UNCHANGED <<content, idx, printed, orig, runs>>

\* open(schema_path, 'w') raises (the file keeps its text), or the file is
\* truncated by open() and write() raises
WriteFail ==
    /\ pc = "write"
    /\ file' \in {file, <<>>}
    /\ pc' = "write_failed"
    /\ UNCHANGED <<content, idx, printed, orig, outputs, runs>>

\* print('... Added tenantId to all models')
PrintSuccess ==
    /\ pc = "print"
    /\ printed' = TRUE
    /\ pc' = "done"
    /\ UNCHANGED <<file, content, idx, orig, outputs, runs>>

\* the script is started again on the file it has written
Rerun ==
    /\ pc = "done"
    /\ runs < MaxRuns
    /\ runs' = runs + 1
    /\ printed' = FALSE
    /\ content' = <<>>
    /\ idx' = 1
    /\ pc' = "read"
    /\ UNCHANGED <<file, orig, outputs>>

Next ==
    \/ Read
    \/ ReadFail
    \/ FieldStep
    \/ IndexStep
    \/ Write
    \/ WriteFail
    \/ PrintSuccess
    \/ Rerun

Spec == Init /\ [][Next]_vars

----------------------------------------------------------------------------
(* Vocabulary of the properties *)

\* the file the current run started from
FileAtStart == IF runs = 1 THEN orig ELSE outputs[runs - 1]

\* the first run has written its result
RanOnce == Len(outputs) >= 1

\* the first run has just written its result
FirstRunWritten == pc = "print" /\ runs = 1

Count(s, line) == Cardinality({i \in 1..Len(s) : s[i] = line})

HasBlock(doc, name) == FindHeader(doc, 1, name) # 0

\* the block of a model: its header line through the next closing line
BlockText(doc, name) ==
    LET h == FindHeader(doc, 1, name)
        e == Min({i \in h..Len(doc) : doc[i] = Closing})
    IN  SubSeq(doc, h, e)

TargetsIn(doc) == {n \in Targets : HasBlock(doc, n)}

\* the header lines of the targeted models
TargetHeaders == {Header(n) : n \in Targets}

HasMarker(b) == \E i \in 1..Len(b) : b[i] = UserRelation
HasIndexLine(b) == \E i \in 1..Len(b) : MatchesIndex(b[i])
EndsWithIndex(b) == Len(b) >= 3 /\ MatchesIndex(b[Len(b) - 1])
NoTenantText(b) == \A i \in 1..Len(b) : ~HasTenantId(b[i])

\* the expected shape: a marker in the block, an index line directly before
\* the closing line, and no tenantId text
ExpectedShape(b) == HasMarker(b) /\ EndsWithIndex(b) /\ NoTenantText(b)

\* the tenant field fragment sits immediately before the first marker of b
FieldBeforeFirstMarker(b) ==
    /\ HasMarker(b)
    /\ LET m == Min({i \in 1..Len(b) : b[i] = UserRelation})
           k == Len(tenant_field)
       IN  m > k /\ SubSeq(b, m - k, m - 1) = tenant_field

\* the tenant index line sits immediately after the last index line that
\* block a had and immediately before the closing line of b
IndexAfterLastIndex(a, b) ==
    LET c == Len(b)
        indexLines(s) == Cardinality({i \in 1..Len(s) : MatchesIndex(s[i])})
    IN  /\ c >= 4
        /\ b[c] = Closing
        /\ b[c - 1] = TenantIndexLine
        /\ MatchesIndex(b[c - 2])
        /\ indexLines(SubSeq(b, 1, c - 2)) = indexLines(a)
        /\ HasIndexLine(a)

RECURSIVE InsertOnlyFrom(_, _, _, _, _, _)
\* out from line j on is inp from line i on with at most nf tenant field
\* fragments and at most ni tenant index lines inserted, nothing else changed
InsertOnlyFrom(inp, out, i, j, nf, ni) ==
    IF j > Len(out)
    THEN i > Len(inp)
    ELSE \/ /\ i <= Len(inp)
            /\ inp[i] = out[j]
            /\ InsertOnlyFrom(inp, out, i + 1, j + 1, nf, ni)
         \/ /\ nf > 0
            /\ j + Len(tenant_field) - 1 <= Len(out)
            /\ \A k \in 1..Len(tenant_field) : out[j + k - 1] = tenant_field[k]
            /\ InsertOnlyFrom(inp, out, i, j + Len(tenant_field), nf - 1, ni)
         \/ /\ ni > 0
            /\ out[j] = tenant_index[1]
            /\ InsertOnlyFrom(inp, out, i, j + 1, nf, ni - 1)

InsertOnly(inp, out, nf, ni) == InsertOnlyFrom(inp, out, 1, 1, nf, ni)

\* the names of models_to_update in reverse, and with the first two swapped
Reversed(s) == [i \in 1..Len(s) |-> s[Len(s) + 1 - i]]
SwapFirstTwo(s) == [i \in 1..Len(s) |-> IF i = 1 THEN s[2]
                                        ELSE IF i = 2 THEN s[1] ELSE s[i]]
Orderings == {Reversed(models_to_update), SwapFirstTwo(models_to_update)}

----------------------------------------------------------------------------
(* The properties *)

\* C1: after one run every block whose name is not in models_to_update has
\* the text it had in the input.
C1_NonTargetUnchanged ==
    FirstRunWritten =>
        \A n \in DocNames \ Targets :
            HasBlock(orig, n) =>
                BlockText(outputs[1], n) = BlockText(orig, n)

\* C2: a targeted block of the expected shape without tenantId text holds,
\* after one run, exactly one tenant field and exactly one tenant index,
\* whatever other block the document has.
C2_ExactlyOne ==
    FirstRunWritten =>
        \A n \in TargetsIn(orig) :
            ExpectedShape(BlockText(orig, n)) =>
                /\ Count(BlockText(outputs[1], n), TenantFieldLine) = 1
                /\ Count(BlockText(outputs[1], n), TenantIndexLine) = 1

\* a run has finished on a two-block document whose second block is a
\* targeted block of the expected shape behind a targeted block without marker
C2_Witness ==
    /\ RanOnce
    /\ HasBlock(orig, "Invoice") /\ HasBlock(orig, "Deal")
    /\ orig[1] = Header("Invoice")
    /\ ~HasMarker(BlockText(orig, "Invoice"))
    /\ ExpectedShape(BlockText(orig, "Deal"))

\* C3 as stated: a targeted block with a marker and an index line and no
\* tenantId text has, after one run, the field fragment immediately before
\* its first marker and the tenant index immediately after its last index
\* line and immediately before its closing line.
C3_Original ==
    FirstRunWritten =>
        \A n \in TargetsIn(orig) :
            LET a == BlockText(orig, n)
                b == BlockText(outputs[1], n)
            IN  (HasMarker(a) /\ HasIndexLine(a) /\ NoTenantText(a)) =>
                    FieldBeforeFirstMarker(b) /\ IndexAfterLastIndex(a, b)

\* C3 amended: the same for a targeted block whose index line stands
\* directly before its closing line.
C3_Placement ==
    FirstRunWritten =>
        \A n \in TargetsIn(orig) :
            LET a == BlockText(orig, n)
                b == BlockText(outputs[1], n)
            IN  (HasMarker(a) /\ EndsWithIndex(a) /\ NoTenantText(a)) =>
                    FieldBeforeFirstMarker(b) /\ IndexAfterLastIndex(a, b)

\* a run has patched a targeted block that had a line between its marker and
\* its last index line
C3_Witness ==
    /\ RanOnce
    /\ \E n \in TargetsIn(orig) :
          /\ ExpectedShape(BlockText(orig, n))
          /\ Len(BlockText(orig, n)) = 5
          /\ BlockText(outputs[1], n) # BlockText(orig, n)

\* C4: a second run writes the document the first run wrote.
C4_Idempotent ==
    \A k \in 1..Len(outputs) : outputs[k] = outputs[1]

\* two runs have finished and the first one patched a block of the expected
\* shape, where the substring tests tell the true state
C4_Witness ==
    /\ Len(outputs) >= 2
    /\ outputs[1] # orig
    /\ \E n \in TargetsIn(orig) : ExpectedShape(BlockText(orig, n))

\* C5: a targeted block that had at most one tenant field and at most one
\* tenant index has at most one of each after every run.
C5_AtMostOne ==
    \A k \in 1..Len(outputs) :
        \A n \in TargetsIn(orig) :
            (/\ Count(BlockText(orig, n), TenantFieldLine) <= 1
             /\ Count(BlockText(orig, n), TenantIndexLine) <= 1) =>
                /\ Count(BlockText(outputs[k], n), TenantFieldLine) <= 1
                /\ Count(BlockText(outputs[k], n), TenantIndexLine) <= 1

\* C6: a targeted block without marker, or without an index line directly
\* before its closing line, has after one run the text it had in the input.
C6_SkippedUnchanged ==
    FirstRunWritten =>
        \A n \in TargetsIn(orig) :
            (~HasMarker(BlockText(orig, n)) \/ ~EndsWithIndex(BlockText(orig, n)))
                => BlockText(outputs[1], n) = BlockText(orig, n)

\* C7: read, then every model, then one write, then the success line.  The
\* file keeps the text the run started from until the write; a failed read
\* leaves it and prints nothing; a failed write prints nothing; what is
\* written is the result of all models.
C7_Order ==
    /\ pc \in {"read", "field", "index", "write", "read_failed"} =>
          /\ file = FileAtStart
          /\ ~printed
          /\ Len(outputs) = runs - 1
    /\ pc \in {"field", "index"} => idx \in 1..Len(models_to_update)
    /\ pc = "write_failed" =>
          /\ ~printed
          /\ Len(outputs) = runs - 1
          /\ file \in {FileAtStart, <<>>}
    /\ pc \in {"write", "write_failed", "print", "done"} =>
          idx = Len(models_to_update) + 1
    /\ pc \in {"print", "done"} =>
          /\ Len(outputs) = runs
          /\ file = content
          /\ outputs[runs] = content
    /\ pc = "print" =>
          file = RunModels(FileAtStart, models_to_update)
    /\ printed <=> pc = "done"

\* a run has finished and has changed the file
C7_Witness == pc = "done" /\ printed /\ file # orig

\* C8: where the field pattern matches, the field is inserted exactly when
\* no line from the header up to the first '  @@' after the first marker
\* holds 'tenantId'; where the index pattern matches, the index is inserted
\* exactly when no line from the header through the matched index line holds
\* '@@index([tenantId])'.
C8_Detection ==
    [][ LET n == models_to_update[idx]
            h == FindHeader(content, 1, n)
            m == IF h = 0 THEN 0 ELSE FindMarker(content, h)
            a == IF m = 0 THEN 0 ELSE FindAtAt(content, m)
            e == IF h = 0 THEN 0 ELSE FindLastIndex(content, h)
        IN  /\ (pc = "field" /\ a # 0) =>
                   IF \E i \in h..(a - 1) : HasTenantId(content[i])
                   THEN content' = content
                   ELSE content' = SubSeq(content, 1, m - 1) \o tenant_field
                                       \o SubSeq(content, m, Len(content))
            /\ (pc = "index" /\ e # 0) =>
                   IF \E i \in h..e : content[i] = TenantIndexLine
                   THEN content' = content
                   ELSE content' = SubSeq(content, 1, e) \o tenant_index
                                       \o SubSeq(content, e + 1, Len(content))
      ]_vars

\* a run has finished in which a comment holding 'tenantId' kept the field
\* out of a targeted block whose pattern matches
C8_Witness ==
    /\ RanOnce
    /\ \E n \in TargetsIn(orig) :
          LET a == BlockText(orig, n)
          IN  /\ Len(a) = 5
              /\ a[2] = TenantComment /\ a[3] = UserRelation /\ a[4] = IndexLine
              /\ Count(BlockText(outputs[1], n), TenantFieldLine) = 0
              /\ Count(BlockText(outputs[1], n), TenantIndexLine) = 1

\* C9: the document a run writes is the one the loop produces for the same
\* names in another order.
C9_OrderIndependent ==
    (pc = "print" /\ runs = 1) =>
        \A order \in Orderings : RunModels(orig, order) = content

\* C10: the buffer is the text the run started from with tenant field
\* fragments and tenant index lines inserted, at most one of each for every
\* targeted header, and nothing else changed.
C10_InsertOnly ==
    pc \in {"field", "index", "write", "print", "done"} =>
        LET k == Cardinality({i \in 1..Len(FileAtStart) :
                                FileAtStart[i] \in TargetHeaders})
        IN  InsertOnly(FileAtStart, content, k, k)

\* a run has finished that inserted both fragments
C10_Witness ==
    /\ pc = "done"
    /\ runs = 1
    /\ Len(content) = Len(orig) + Len(tenant_field) + Len(tenant_index)

====
